---- MODULE Spec2Model ----
(***************************************************************************)
(* A model of the emoji utilities (src/emoji.rs) and of the member list on  *)
(* disk (src/user_list.rs) of the Gefolge Discord bot.                     *)
(*                                                                         *)
(* A Rust String is modelled as the sequence of its Unicode scalar values  *)
(* (codepoints, as integers).  Byte offsets, which the code slices with,   *)
(* are computed from the UTF-8 width of every codepoint.  Comparing two    *)
(* strings byte by byte in UTF-8 orders them as comparing them codepoint   *)
(* by codepoint does, so the order of BTreeSet<String> is LexLess below.   *)
(***************************************************************************)
EXTENDS Integers, Sequences, FiniteSets

VARIABLES
    readable,   \* whether fs::read_dir can open the twemoji directory
    listing,    \* the directory entries, in the order fs::read_dir yields them
    orig,       \* the text handed to Iter::new
    pc,         \* "new" | "err" | "ready" | "loop" | "panic"
    selfText,   \* Iter.text
    emoji,      \* Iter.emoji
    text,       \* the local slice `text` of Iter::next
    callText,   \* history: self.text when the last call of Iter::next began
    ret,        \* what the last call of Iter::new or Iter::next returned
    at,         \* history: `text` at the head of the last loop iteration
    did,        \* history: how the last loop iteration ended
    consumed,   \* history: the spans consumed so far, concatenated
    afterCustom, \* history: the length of the text left by the last Custom token, or -1
    parg,       \* the argument of a standalone parse_custom_emoji call
    pret,       \* what that call returned
    profiles,   \* PROFILES_DIR: its entries by name
    dirMode,    \* "rw" | "ro" (no entry can be created or deleted) | "missing"
    call,       \* history: the last call of a function of user_list
    result,     \* what that call returned
    dirBefore,  \* history: PROFILES_DIR when that call began
    removedBefore \* history: the remove that returned Ok just before that call

emojiVars == <<readable, listing, orig, pc, selfText, emoji, text, callText, ret, at,
               did, consumed, afterCustom, parg, pret>>

userListVars == <<profiles, dirMode, call, result, dirBefore, removedBefore>>

vars == <<emojiVars, userListVars>>

-----------------------------------------------------------------------------
(* Bounds of the model. *)

\* how many pieces a text is put together from
MaxPieces == 2

\* how many entries a directory listing holds at most
MaxDirSize == 3

\* how many members user_list::set is handed at most
MaxMembers == 2

-----------------------------------------------------------------------------
(* Characters and strings. *)

\* the ASCII characters the patterns of emoji.rs name
Ch == [lt |-> 60, gt |-> 62, colon |-> 58, dash |-> 45, dot |-> 46,
       underscore |-> 95]

\* [0-9]
IsDigit(c) == c \in 48..57

\* [0-9A-Z_a-z]
IsWord(c) == c \in 48..57 \/ c \in 65..90 \/ c = Ch.underscore \/ c \in 97..122

\* [0-9a-f]
IsLowerHex(c) == c \in 48..57 \/ c \in 97..102

\* the number of bytes of a codepoint in UTF-8
Utf8Len(c) == IF c < 128 THEN 1 ELSE IF c < 2048 THEN 2 ELSE IF c < 65536 THEN 3 ELSE 4

RECURSIVE BytesUpTo(_, _)
\* the number of bytes of the first k characters of s
BytesUpTo(s, k) == IF k = 0 THEN 0 ELSE Utf8Len(s[k]) + BytesUpTo(s, k - 1)

\* str::len: the length of a string in bytes
ByteLen(s) == BytesUpTo(s, Len(s))

\* str::starts_with
StartsWith(s, p) == Len(p) <= Len(s) /\ SubSeq(s, 1, Len(p)) = p

\* the order of String: lexicographic, a proper prefix first
LexLess(a, b) ==
    \E i \in 1..(Len(a) + 1) :
        /\ i <= Len(b)
        /\ \A j \in 1..(i - 1) : a[j] = b[j]
        /\ (i = Len(a) + 1 \/ a[i] < b[i])

RECURSIVE CharsBefore(_, _, _, _)
\* the number of characters of s that end at byte offset n, counting on from
\* the first k characters and their bytes; -1 when n lies inside a character
\* or beyond the end
CharsBefore(s, n, k, bytes) ==
    IF bytes = n THEN k
    ELSE IF bytes > n \/ k = Len(s) THEN -1
    ELSE CharsBefore(s, n, k + 1, bytes + Utf8Len(s[k + 1]))

\* &s[n..]: the string from byte offset n on; it panics unless n lies on a
\* character boundary
SliceFrom(s, n) ==
    LET k == CharsBefore(s, n, 0, 0)
    IN  IF k < 0 THEN [ok |-> FALSE] ELSE [ok |-> TRUE, s |-> SubSeq(s, k + 1, Len(s))]

\* [0-9A-Z_a-z]* from position i on: the position after the longest such run
WordRunEnd(s, i) ==
    CHOOSE j \in i..(Len(s) + 1) :
        /\ \A k \in i..(j - 1) : IsWord(s[k])
        /\ (j = Len(s) + 1 \/ ~IsWord(s[j]))

\* [0-9]* from position i on: the position after the longest such run
DigitRunEnd(s, i) ==
    CHOOSE j \in i..(Len(s) + 1) :
        /\ \A k \in i..(j - 1) : IsDigit(s[k])
        /\ (j = Len(s) + 1 \/ ~IsDigit(s[j]))

-----------------------------------------------------------------------------
(* Unsigned 64-bit ids.  A value is kept as its decimal digits (0..9) without *)
(* leading zeros, the value zero as <<0>>.                                    *)

\* u64::MAX = 18446744073709551615
U64Max == <<1,8,4,4,6,7,4,4,0,7,3,7,0,9,5,5,1,6,1,5>>

RECURSIVE StripZeros(_)
\* the digits of a number without its leading zeros
StripZeros(ds) == IF Len(ds) > 1 /\ Head(ds) = 0 THEN StripZeros(Tail(ds)) ELSE ds

\* a <= b for two numbers given by their digits without leading zeros
DecLeq(a, b) == Len(a) < Len(b) \/ (Len(a) = Len(b) /\ (a = b \/ LexLess(a, b)))

\* u64::from_str on a string the pattern [0-9]+ matched: the value, or an
\* error when it does not fit in 64 bits
U64FromStr(id) ==
    LET v == StripZeros([i \in DOMAIN id |-> id[i] - 48])
    IN  IF DecLeq(v, U64Max) THEN [ok |-> TRUE, val |-> v] ELSE [ok |-> FALSE]

-----------------------------------------------------------------------------
(* The custom emoji patterns. *)

\* <:[0-9A-Z_a-z]{2,}:[0-9]+> at the start of s, with a name of at least
\* minName characters: whether it matches, the match's end and the two groups
CustomPattern(s, minName) ==
    LET no == [matched |-> FALSE]
    IN  IF Len(s) < 2 \/ s[1] # Ch.lt \/ s[2] # Ch.colon THEN no
        ELSE LET e1 == WordRunEnd(s, 3)
             IN  IF e1 - 3 < minName \/ e1 > Len(s) \/ s[e1] # Ch.colon THEN no
                 ELSE LET e2 == DigitRunEnd(s, e1 + 1)
                      IN  IF e2 - (e1 + 1) < 1 \/ e2 > Len(s) \/ s[e2] # Ch.gt THEN no
                          ELSE [matched |-> TRUE, len |-> e2,
                                name |-> SubSeq(s, 3, e1 - 1),
                                id |-> SubSeq(s, e1 + 1, e2 - 1)]

\* the pattern of Iter::next with a name of three or more characters
IterRELongName(s) == CustomPattern(s, 3)

\* RE of Iter::next: ^<:[0-9A-Z_a-z]{2,}:[0-9]+>
IterRE(s) == CustomPattern(s, 2)

\* RE of parse_custom_emoji: ^<:([0-9A-Z_a-z]{2,}):([0-9]+)>$
ParseRE(s) ==
    LET m == CustomPattern(s, 2)
    IN  IF m.matched /\ m.len = Len(s) THEN m ELSE [matched |-> FALSE]

\* parse_custom_emoji: Some(Custom), None, or the panic of expect
ParseCustomEmoji(s) ==
    LET m == ParseRE(s)
    IN  IF ~m.matched THEN [tag |-> "None"]
        ELSE LET id == U64FromStr(m.id)
             IN  IF id.ok THEN [tag |-> "Custom", id |-> id.val, name |-> m.name]
                 ELSE [tag |-> "Panic"]

-----------------------------------------------------------------------------
(* Iter::new: the catalog built from the twemoji directory. *)

\* the suffix \.svg of the filename pattern
DotSvg == <<Ch.dot, 115, 118, 103>>

RECURSIVE Split(_, _)
\* str::split: the pieces of s between the occurrences of sep
Split(s, sep) ==
    IF \A i \in DOMAIN s : s[i] # sep THEN <<s>>
    ELSE LET k == CHOOSE i \in DOMAIN s : s[i] = sep /\ \A j \in 1..(i - 1) : s[j] # sep
         IN  <<SubSeq(s, 1, k - 1)>> \o Split(SubSeq(s, k + 1, Len(s)), sep)

\* RE of Iter::new: ^([0-9a-f]{1,6}(?:-[0-9a-f]{1,6})*)\.svg$ ; group 1 of the match
FileNameRE(name) ==
    LET n == Len(name) - 4
        stem == SubSeq(name, 1, n)
    IN  IF /\ n >= 1
           /\ SubSeq(name, n + 1, Len(name)) = DotSvg
           /\ \A i \in 1..Len(Split(stem, Ch.dash)) :
                 LET g == Split(stem, Ch.dash)[i]
                 IN  Len(g) \in 1..6 /\ \A k \in DOMAIN g : IsLowerHex(g[k])
        THEN [matched |-> TRUE, capture |-> stem]
        ELSE [matched |-> FALSE]

\* the value of one base-16 digit, -1 for any other character
HexDigit(c) ==
    IF c \in 48..57 THEN c - 48
    ELSE IF c \in 97..102 THEN c - 87
    ELSE IF c \in 65..70 THEN c - 55
    ELSE -1

RECURSIVE HexFold(_, _)
\* the digits of hex read from the left in base 16, starting from acc
HexFold(hex, acc) ==
    IF hex = <<>> THEN acc ELSE HexFold(Tail(hex), 16 * acc + HexDigit(Head(hex)))

\* u32::from_str_radix(hex, 16).ok(): a group of the pattern has at most six
\* digits, so the value fits in 32 bits whenever the digits are valid
FromStrRadix16(hex) ==
    IF hex = <<>> \/ Len(hex) > 6 \/ \E i \in DOMAIN hex : HexDigit(hex[i]) < 0
    THEN [ok |-> FALSE]
    ELSE [ok |-> TRUE, val |-> HexFold(hex, 0)]

\* a conversion that checks the range alone and lets the surrogates through
CharFromU32Unchecked(v) ==
    IF v > 1114111 THEN [ok |-> FALSE] ELSE [ok |-> TRUE, c |-> v]

\* char::from_u32: a scalar value is at most 10FFFF and no surrogate
CharFromU32(v) ==
    IF v > 1114111 \/ v \in 55296..57343 THEN [ok |-> FALSE] ELSE [ok |-> TRUE, c |-> v]

RECURSIVE FilterMapChars(_)
\* filter_map(|hex| from_str_radix(hex, 16).ok().and_then(from_u32)).collect()
FilterMapChars(groups) ==
    IF groups = <<>> THEN <<>>
    ELSE LET v == FromStrRadix16(Head(groups))
             c == IF v.ok THEN CharFromU32(v.val) ELSE [ok |-> FALSE]
         IN  (IF c.ok THEN <<c.c>> ELSE <<>>) \o FilterMapChars(Tail(groups))

\* the emoji a captured filename encodes (1f3f3-fe0f-200d-1f308 to the flag)
DecodeCapture(capture) == FilterMapChars(Split(capture, Ch.dash))

\* Vec::push in the place of BTreeSet::insert: appended, whether present or not
VecPush(set, s) == set \o <<s>>

\* BTreeSet::insert, the set kept as its elements in ascending order
BTreeInsert(set, s) ==
    IF \E i \in DOMAIN set : set[i] = s THEN set
    ELSE LET k == Cardinality({i \in DOMAIN set : LexLess(set[i], s)})
         IN  SubSeq(set, 1, k) \o <<s>> \o SubSeq(set, k + 1, Len(set))

\* to_string_lossy in the place of into_string: never an error for the name
EntryFileNameLossy(entry) ==
    IF entry.stat = "io" THEN [ok |-> FALSE, kind |-> "Io"]
    ELSE [ok |-> TRUE, name |-> entry.name]

\* entry?.file_name().into_string()? : the name, or the error that ends Iter::new
EntryFileName(entry) ==
    IF entry.stat = "io" THEN [ok |-> FALSE, kind |-> "Io"]
    ELSE IF entry.stat = "not_unicode" THEN [ok |-> FALSE, kind |-> "FilenameDecode"]
    ELSE [ok |-> TRUE, name |-> entry.name]

RECURSIVE ForEntries(_, _, _)
\* the for loop of Iter::new from entry i on, with the set built so far
ForEntries(entries, i, set) ==
    IF i > Len(entries) THEN [ok |-> TRUE, emoji |-> set]
    ELSE LET f == EntryFileName(entries[i])
         IN  IF ~f.ok THEN [ok |-> FALSE, kind |-> f.kind]
             ELSE LET m == FileNameRE(f.name)
                  IN  ForEntries(entries, i + 1,
                          IF m.matched THEN BTreeInsert(set, DecodeCapture(m.capture))
                          ELSE set)

\* Iter::new(text): Ok(Iter) or Err(Error)
IterNew(canRead, entries, t) ==
    IF ~canRead THEN [tag |-> "Err", kind |-> "Io"]
    ELSE LET r == ForEntries(entries, 1, <<>>)
         IN  IF r.ok THEN [tag |-> "Iter", text |-> t, emoji |-> r.emoji]
             ELSE [tag |-> "Err", kind |-> r.kind]

-----------------------------------------------------------------------------
(* Iter::next: one iteration of its loop. *)

\* the catalog read from the front: the first entry the text starts with
FirstPrefixForward(t, catalog) ==
    LET hits == {i \in DOMAIN catalog : StartsWith(t, catalog[i])}
    IN  IF hits = {} THEN [found |-> FALSE]
        ELSE [found |-> TRUE, s |-> catalog[CHOOSE i \in hits : \A j \in hits : i <= j]]

\* the catalog read from the back, and its first entry whatever the text is
FirstUnfiltered(t, catalog) ==
    IF catalog = <<>> THEN [found |-> FALSE]
    ELSE [found |-> TRUE, s |-> catalog[Len(catalog)]]

\* self.emoji.iter().rev().filter(|&emoji| text.starts_with(emoji)).next()
FirstPrefixRev(t, catalog) ==
    LET hits == {i \in DOMAIN catalog : StartsWith(t, catalog[i])}
    IN  IF hits = {} THEN [found |-> FALSE]
        ELSE [found |-> TRUE, s |-> catalog[CHOOSE i \in hits : \A j \in hits : i >= j]]

\* text.char_indices().nth(2): the byte offset of the third character
CharIndicesNth2(t) ==
    IF Len(t) >= 3 THEN [some |-> TRUE, idx |-> ByteLen(SubSeq(t, 1, 2))]
    ELSE [some |-> FALSE]

\* the offset of the second byte of the text, whatever character it is part of
ByteIndex1(t) ==
    IF Len(t) >= 2 THEN [some |-> TRUE, idx |-> 1] ELSE [some |-> FALSE]

\* text.char_indices().nth(1): the byte offset of the second character
CharIndicesNth1(t) ==
    IF Len(t) >= 2 THEN [some |-> TRUE, idx |-> Utf8Len(t[1])] ELSE [some |-> FALSE]

\* self.text = text[n..].to_owned(); break Some(token), span being what matched
BreakSome(t, token, span) ==
    LET rest == SliceFrom(t, ByteLen(span))
    IN  IF rest.ok THEN [kind |-> "emit", token |-> token, span |-> span, rest |-> rest.s]
        ELSE [kind |-> "panic"]

\* the loop body after the custom emoji attempt: the Unicode attempt, then the
\* skip of one character or the end
UnicodeOrSkip(t, catalog) ==
    LET u == FirstPrefixRev(t, catalog)
    IN  IF u.found THEN BreakSome(t, [tag |-> "Unicode", s |-> u.s], u.s)
        ELSE LET n == CharIndicesNth1(t)
             IN  IF ~n.some THEN [kind |-> "none"]
                 ELSE LET rest == SliceFrom(t, n.idx)
                      IN  IF rest.ok THEN [kind |-> "skip", rest |-> rest.s]
                          ELSE [kind |-> "panic"]

\* the loop body with the two attempts in the other order: the Unicode
\* attempt first, the custom emoji attempt when no catalog entry matches
LoopBodyUnicodeFirst(t, catalog) ==
    LET u == FirstPrefixRev(t, catalog)
        m == IterRE(t)
        capture == SubSeq(t, 1, m.len)
        parsed == ParseCustomEmoji(capture)
    IN  IF u.found THEN BreakSome(t, [tag |-> "Unicode", s |-> u.s], u.s)
        ELSE IF m.matched /\ parsed.tag = "Panic" THEN [kind |-> "panic"]
        ELSE IF m.matched /\ parsed.tag = "Custom" THEN BreakSome(t, parsed, capture)
        ELSE UnicodeOrSkip(t, catalog)

\* one iteration of the loop of Iter::next on the local text t
LoopBody(t, catalog) ==
    LET m == IterRE(t)
        capture == SubSeq(t, 1, m.len)
        parsed == ParseCustomEmoji(capture)
    IN  IF m.matched /\ parsed.tag = "Panic" THEN [kind |-> "panic"]
        ELSE IF m.matched /\ parsed.tag = "Custom" THEN BreakSome(t, parsed, capture)
        ELSE UnicodeOrSkip(t, catalog)

-----------------------------------------------------------------------------
(* The texts and directories the model runs on. *)

\* lowercase hexadecimal digits as characters
Hex(nibbles) == [i \in DOMAIN nibbles |-> IF nibbles[i] < 10 THEN 48 + nibbles[i]
                                                               ELSE 87 + nibbles[i]]

\* decimal digits as characters
Dec(digits) == [i \in DOMAIN digits |-> 48 + digits[i]]

\* the codepoints the texts are made of: a, the copyright sign, <, the white
\* flag, variation selector 16, zero width joiner, the rainbow
Cp == [a |-> 97, copyright |-> 169, lt |-> 60, flag |-> 127987, vs16 |-> 65039,
       zwj |-> 8205, rainbow |-> 127752]

\* the rainbow flag, 1f3f3-fe0f-200d-1f308
RainbowFlag == <<Cp.flag, Cp.vs16, Cp.zwj, Cp.rainbow>>

\* <:name:digits>
Span(name, digits) == <<Ch.lt, Ch.colon>> \o name \o <<Ch.colon>> \o digits \o <<Ch.gt>>

\* u64::MAX + 1
U64Over == <<1,8,4,4,6,7,4,4,0,7,3,7,0,9,5,5,1,6,1,6>>

\* strings a character short of a custom emoji: <:a:1>, <:ab:>, <:ab:1, <ab:1>
NearMisses ==
    {Span(<<97>>, Dec(<<1>>)), Span(<<97, 98>>, <<>>),
     <<Ch.lt, Ch.colon, 97, 98, Ch.colon, 49>>, <<Ch.lt, 97, 98, Ch.colon, 49, Ch.gt>>}

\* the pieces a text is put together from: single characters, the rainbow
\* flag, <:ab:1>, <:x_9Z:007>, <:ab:id> with id u64::MAX and u64::MAX + 1, and
\* <:a:1>
Pieces ==
    {<<Cp.a>>, <<Cp.copyright>>, <<Cp.lt>>, <<Cp.flag>>, <<Cp.vs16>>, RainbowFlag,
     Span(<<97, 98>>, Dec(<<1>>)), Span(<<120, Ch.underscore, 57, 90>>, Dec(<<0, 0, 7>>)),
     Span(<<97, 98>>, Dec(U64Max)), Span(<<97, 98>>, Dec(U64Over)),
     Span(<<97>>, Dec(<<1>>))}

RECURSIVE TextsOf(_)
\* the texts of at most n pieces
TextsOf(n) ==
    IF n = 0 THEN {<<>>}
    ELSE TextsOf(n - 1) \cup {t \o p : t \in TextsOf(n - 1), p \in Pieces}

\* gg <:lrrJUDGE:289173939802996736> well played
JudgeExample ==
    <<103, 103, 32>>
    \o Span(<<108, 114, 114, 74, 85, 68, 71, 69>>,
            Dec(<<2,8,9,1,7,3,9,3,9,8,0,2,9,9,6,7,3,6>>))
    \o <<32, 119, 101, 108, 108, 32, 112, 108, 97, 121, 101, 100>>

\* the texts scanned
Texts == TextsOf(MaxPieces) \cup {JudgeExample}

\* the strings parse_custom_emoji is called on, the 26 nines of an id that
\* overflows among them
ParseInputs == Texts \cup NearMisses \cup {Span(<<97, 98>>, [i \in 1..26 |-> 57])}

\* a directory entry whose name is valid Unicode
File(name) == [name |-> name, stat |-> "ok"]

\* the hexadecimal digits of the groups the filenames are made of
Nib == [flag |-> <<1,15,3,15,3>>, vs16 |-> <<15,14,0,15>>, zwj |-> <<2,0,0,13>>,
        rainbow |-> <<1,15,3,0,8>>, surrogate |-> <<13,8,0,0>>,
        beyond |-> <<1,1,0,0,0,0>>, lt |-> <<3,12>>]

RECURSIVE JoinHex(_)
\* groups of hexadecimal digits as characters, joined by dashes
JoinHex(groups) ==
    IF Len(groups) = 1 THEN Hex(groups[1])
    ELSE Hex(groups[1]) \o <<Ch.dash>> \o JoinHex(Tail(groups))

\* the filename of an emoji, from the hexadecimal digits of its codepoints
SvgOf(groups) == File(JoinHex(groups) \o DotSvg)

\* the files of the catalogs the texts are scanned with: 1f3f3.svg,
\* 1f3f3-fe0f-200d-1f308.svg, d800.svg (a surrogate) and 3c.svg
ScanFiles ==
    {SvgOf(<<Nib.flag>>), SvgOf(<<Nib.flag, Nib.vs16, Nib.zwj, Nib.rainbow>>),
     SvgOf(<<Nib.surrogate>>), SvgOf(<<Nib.lt>>)}

\* more files: 1f308.svg, 01f308.svg, 110000-1f308.svg, and names the pattern
\* does not match: 1F308.svg, 1234567.svg
MoreFiles ==
    {SvgOf(<<Nib.rainbow>>), SvgOf(<<<<0>> \o Nib.rainbow>>),
     SvgOf(<<Nib.beyond, Nib.rainbow>>),
     File(<<49, 70, 51, 48, 56>> \o DotSvg),
     SvgOf(<<<<1,2,3,4,5,6,7>>>>)}

\* entries Iter::new fails on: one read_dir cannot read, one whose name is no
\* valid Unicode (the name kept is its lossy decoding)
BadEntries ==
    {[name |-> <<>>, stat |-> "io"],
     [name |-> <<65533>> \o Hex(Nib.rainbow) \o DotSvg, stat |-> "not_unicode"]}

RECURSIVE Listings(_, _)
\* the sequences without repetition of at most n elements of S
Listings(S, n) ==
    IF n = 0 THEN {<<>>}
    ELSE Listings(S, n - 1) \cup
         UNION {{Append(l, e) : e \in S \ {l[i] : i \in DOMAIN l}} : l \in Listings(S, n - 1)}

RECURSIVE SomeOrder(_)
\* one enumeration of the files S
SomeOrder(S) ==
    IF S = {} THEN <<>> ELSE LET e == CHOOSE x \in S : TRUE IN <<e>> \o SomeOrder(S \ {e})

\* the inputs of a run: every text with every catalog of ScanFiles, and one
\* text with every directory, in every order, of at most MaxDirSize entries
Inputs ==
    [text : Texts, listing : {SomeOrder(S) : S \in SUBSET ScanFiles}, readable : {TRUE}]
    \cup [text : {<<Cp.a, Cp.flag>>},
          listing : Listings(ScanFiles \cup MoreFiles \cup BadEntries, MaxDirSize),
          readable : {TRUE}]
    \cup [text : {<<Cp.a, Cp.flag>>}, listing : {<<>>, <<SvgOf(<<Nib.flag>>)>>},
          readable : {FALSE}]

-----------------------------------------------------------------------------
(* The member list on disk (src/user_list.rs).  PROFILES_DIR is a function  *)
(* from the names in it to its entries; a regular file holds a sequence of   *)
(* JSON documents, none when it is empty.  Of a Member the model keeps the   *)
(* user id, the join date and the nickname; bot, discriminator, roles and    *)
(* username are written to the file the way the nickname is.                 *)

\* Option<T>
None == [some |-> FALSE]

Some(v) == [some |-> TRUE, v |-> v]

\* a directory among the entries of PROFILES_DIR
Directory == [kind |-> "dir"]

\* a regular file among the entries of PROFILES_DIR
RegularFile(content) == [kind |-> "file", content |-> content]

\* PROFILES_DIR without entries
EmptyDir == [n \in {} |-> Directory]

\* the directory without the entry of that name
Without(dir, name) == [n \in DOMAIN dir \ {name} |-> dir[n]]

\* the directory with that entry under that name
With(dir, name, entry) ==
    [n \in DOMAIN dir \cup {name} |-> IF n = name THEN entry ELSE dir[n]]

\* ".json"
DotJson == <<46, 106, 115, 111, 110>>

RECURSIVE DisplayU64(_)
\* how format! writes a user id: in decimal digits
DisplayU64(n) ==
    IF n < 10 THEN <<48 + n>> ELSE Append(DisplayU64(n \div 10), 48 + (n % 10))

\* format!("{}/{}.json", PROFILES_DIR, user.id), as a name within PROFILES_DIR
ProfilePath(id) == DisplayU64(id) \o DotJson

\* json!({...}) of a member whose join date is there
Json(member) ==
    [joined |-> member.joined_at.v, nick |-> member.nick, snowflake |-> member.user.id]

\* File::create: the file is created, or truncated when it exists
FileCreate(dir, mode, name) ==
    IF mode = "missing" THEN [ok |-> FALSE]
    ELSE IF name \in DOMAIN dir /\ dir[name].kind = "dir" THEN [ok |-> FALSE]
    ELSE IF name \notin DOMAIN dir /\ mode = "ro" THEN [ok |-> FALSE]
    ELSE [ok |-> TRUE, dir |-> With(dir, name, RegularFile(<<>>))]

\* fs::remove_file
RemoveFile(dir, mode, name) ==
    IF mode = "missing" \/ name \notin DOMAIN dir THEN [kind |-> "NotFound"]
    ELSE IF dir[name].kind = "dir" \/ mode = "ro" THEN [kind |-> "Other"]
    ELSE [kind |-> "Ok", dir |-> Without(dir, name)]

\* user_list::add
add(dir, mode, member) ==
    LET path == ProfilePath(member.user.id)
        f == FileCreate(dir, mode, path)
    IN  IF ~f.ok THEN [ret |-> "Io", dir |-> dir]
        ELSE IF ~member.joined_at.some THEN [ret |-> "MissingJoinDate", dir |-> f.dir]
        ELSE [ret |-> "Ok", dir |-> With(f.dir, path, RegularFile(<<Json(member)>>))]

\* a remove that passes the NotFound of fs::remove_file on
removeStrict(dir, mode, user) ==
    LET r == RemoveFile(dir, mode, ProfilePath(user))
    IN  IF r.kind = "Ok" THEN [ret |-> "Ok", dir |-> r.dir]
        ELSE [ret |-> "Io", dir |-> dir]

\* user_list::remove
remove(dir, mode, user) ==
    LET r == RemoveFile(dir, mode, ProfilePath(user))
    IN  IF r.kind = "NotFound" THEN [ret |-> "Ok", dir |-> dir]
        ELSE IF r.kind = "Ok" THEN [ret |-> "Ok", dir |-> r.dir]
        ELSE [ret |-> "Io", dir |-> dir]

RECURSIVE RemoveEntries(_, _, _, _)
\* for entry in fs::read_dir(PROFILES_DIR)? { fs::remove_file(entry?.path())?; }
\* from the i-th entry on, entries being the names in the order read_dir
\* yields them
RemoveEntries(dir, mode, entries, i) ==
    IF i > Len(entries) THEN [ret |-> "Ok", dir |-> dir]
    ELSE LET r == RemoveFile(dir, mode, entries[i])
         IN  IF r.kind = "Ok" THEN RemoveEntries(r.dir, mode, entries, i + 1)
             ELSE [ret |-> "Io", dir |-> dir]

RECURSIVE AddMembers(_, _, _, _)
\* for member in members.into_iter() { add(member)?; } from the i-th member on
AddMembers(dir, mode, members, i) ==
    IF i > Len(members) THEN [ret |-> "Ok", dir |-> dir]
    ELSE LET r == add(dir, mode, members[i])
         IN  IF r.ret = "Ok" THEN AddMembers(r.dir, mode, members, i + 1) ELSE r

\* a set that adds the members to what the directory holds
setKeeping(dir, mode, entries, members) ==
    IF mode = "missing" THEN [ret |-> "Io", dir |-> dir]
    ELSE AddMembers(dir, mode, members, 1)

\* user_list::set
set(dir, mode, entries, members) ==
    IF mode = "missing" THEN [ret |-> "Io", dir |-> dir]
    ELSE LET cleared == RemoveEntries(dir, mode, entries, 1)
         IN  IF cleared.ret = "Ok" THEN AddMembers(cleared.dir, mode, members, 1)
             ELSE cleared

\* user_list::update
update(dir, mode, member) ==
    LET removed == remove(dir, mode, member.user.id)
    IN  IF removed.ret = "Ok" THEN add(removed.dir, mode, member) ELSE removed

-----------------------------------------------------------------------------
(* The scanner as a state machine. *)

\* no call has returned yet
NotCalled == [tag |-> "NotCalled"]

\* before Iter::new(text) is called
Init ==
    \E in \in Inputs :
        /\ readable = in.readable
        /\ listing = in.listing
        /\ orig = in.text
        /\ pc = "new"
        /\ selfText = <<>>
        /\ emoji = <<>>
        /\ text = <<>>
        /\ callText = <<>>
        /\ ret = NotCalled
        /\ at = <<>>
        /\ did = "nothing"
        /\ consumed = <<>>
        /\ afterCustom = -1
        /\ parg = <<>>
        /\ pret = NotCalled
        /\ profiles = EmptyDir
        /\ dirMode = "rw"
        /\ call = [op |-> "none"]
        /\ result = "none"
        /\ dirBefore = EmptyDir
        /\ removedBefore = [some |-> FALSE]

\* Iter::new(orig)
New ==
    /\ pc = "new"
    /\ LET r == IterNew(readable, listing, orig)
       IN  /\ pc' = IF r.tag = "Iter" THEN "ready" ELSE "err"
           /\ selfText' = IF r.tag = "Iter" THEN r.text ELSE selfText
           /\ emoji' = IF r.tag = "Iter" THEN r.emoji ELSE emoji
           /\ ret' = IF r.tag = "Iter" THEN [tag |-> "Iter"] ELSE r
    /\ UNCHANGED <<readable, listing, orig, text, callText, at, did, consumed,
                   afterCustom, parg, pret, userListVars>>

\* Iter::next is called: let text = mem::replace(&mut self.text, String::default())
NextCall ==
    /\ pc = "ready"
    /\ pc' = "loop"
    /\ text' = selfText
    /\ callText' = selfText
    /\ selfText' = <<>>
    /\ UNCHANGED <<readable, listing, orig, emoji, ret, at, did, consumed, afterCustom,
                   parg, pret, userListVars>>

\* one iteration of the loop of Iter::next
LoopIter ==
    /\ pc = "loop"
    /\ at' = text
    /\ LET o == LoopBody(text, emoji)
       IN  /\ did' = o.kind
           /\ pc' = CASE o.kind = "skip" -> "loop"
                      [] o.kind = "panic" -> "panic"
                      [] OTHER -> "ready"
           /\ text' = CASE o.kind = "skip" -> o.rest
                        [] o.kind = "panic" -> text
                        [] OTHER -> <<>>
           /\ selfText' = IF o.kind = "emit" THEN o.rest ELSE selfText
           /\ ret' = CASE o.kind = "emit" -> o.token
                       [] o.kind = "none" -> [tag |-> "None"]
                       [] OTHER -> ret
           /\ consumed' = CASE o.kind = "emit" -> consumed \o o.span
                            [] o.kind = "skip" -> Append(consumed, text[1])
                            [] o.kind = "none" -> consumed \o text
                            [] OTHER -> consumed
           /\ afterCustom' = IF o.kind = "emit" /\ o.token.tag = "Custom"
                              THEN Len(o.rest) ELSE afterCustom
    /\ UNCHANGED <<readable, listing, orig, emoji, callText, parg, pret, userListVars>>

Next == New \/ NextCall \/ LoopIter

Spec == Init /\ [][Next]_vars

-----------------------------------------------------------------------------
(* parse_custom_emoji called on its own. *)

\* before parse_custom_emoji(parg) is called
InitParse ==
    /\ parg \in ParseInputs
    /\ pret = NotCalled
    /\ readable = TRUE
    /\ listing = <<>>
    /\ orig = <<>>
    /\ pc = "parse"
    /\ selfText = <<>>
    /\ emoji = <<>>
    /\ text = <<>>
    /\ callText = <<>>
    /\ ret = NotCalled
    /\ at = <<>>
    /\ did = "nothing"
    /\ consumed = <<>>
    /\ afterCustom = -1
    /\ profiles = EmptyDir
    /\ dirMode = "rw"
    /\ call = [op |-> "none"]
    /\ result = "none"
    /\ dirBefore = EmptyDir
    /\ removedBefore = [some |-> FALSE]

\* parse_custom_emoji(parg)
ParseCall ==
    /\ pc = "parse"
    /\ pret = NotCalled
    /\ pret' = ParseCustomEmoji(parg)
    /\ UNCHANGED <<readable, listing, orig, pc, selfText, emoji, text, callText, ret,
                   at, did, consumed, afterCustom, parg, userListVars>>

NextParse == ParseCall

SpecParse == InitParse /\ [][NextParse]_vars

-----------------------------------------------------------------------------
(* The member list as a state machine: the bot calls add, remove, set and   *)
(* update one after the other on a directory that other programs read.       *)

\* the user ids of the model; the name of the one ends with the name of the
\* other
UserIds == {7, 17}

\* the join dates of the model
JoinDates == [old |-> 2018, new |-> 2019]

\* the members the functions are handed
Members ==
    [user : [id : UserIds], joined_at : {None, Some(JoinDates.new)}, nick : {None}]

\* the lists of members set is handed
MemberLists == UNION {[1..n -> Members] : n \in 0..MaxMembers}

\* a file of PROFILES_DIR no profile is kept in: "notes"
StrayName == <<110, 111, 116, 101, 115>>

\* a directory within PROFILES_DIR: "tmp"
SubDirName == <<116, 109, 112>>

\* what PROFILES_DIR can hold when the bot starts: the profile of user 7 as
\* an earlier run wrote it, a stray file, a directory
StartEntries ==
    [n \in {ProfilePath(7), StrayName, SubDirName} |->
        IF n = ProfilePath(7)
            THEN RegularFile(<<Json([user |-> [id |-> 7], joined_at |-> Some(JoinDates.old),
                                     nick |-> None])>>)
        ELSE IF n = StrayName THEN RegularFile(<<>>)
        ELSE Directory]

\* the orders fs::read_dir can yield the names of the directory in
ReadDirOrders(dir) == {l \in Listings(DOMAIN dir, Cardinality(DOMAIN dir)) :
                         Len(l) = Cardinality(DOMAIN dir)}

\* before the first call of a function of user_list
InitUserList ==
    /\ \E names \in SUBSET DOMAIN StartEntries :
          profiles = [n \in names |-> StartEntries[n]]
    /\ dirMode \in {"rw", "ro", "missing"}
    /\ dirMode = "missing" => profiles = EmptyDir
    /\ call = [op |-> "none"]
    /\ result = "none"
    /\ dirBefore = profiles
    /\ removedBefore = [some |-> FALSE]
    /\ readable = TRUE
    /\ listing = <<>>
    /\ orig = <<>>
    /\ pc = "user_list"
    /\ selfText = <<>>
    /\ emoji = <<>>
    /\ text = <<>>
    /\ callText = <<>>
    /\ ret = NotCalled
    /\ at = <<>>
    /\ did = "nothing"
    /\ consumed = <<>>
    /\ afterCustom = -1
    /\ parg = <<>>
    /\ pret = NotCalled

\* what every call records: the call, its outcome, and whether the call
\* before it was a remove that returned Ok
Record(c, r) ==
    /\ call' = c
    /\ result' = r.ret
    /\ profiles' = r.dir
    /\ dirBefore' = profiles
    /\ removedBefore' = IF call.op = "remove" /\ result = "Ok"
                          THEN [some |-> TRUE, user |-> call.user,
                                deleted |-> ProfilePath(call.user) \in DOMAIN dirBefore]
                          ELSE [some |-> FALSE]
    /\ UNCHANGED <<dirMode, emojiVars>>

\* user_list::add(member)
Add ==
    /\ pc = "user_list"
    /\ \E member \in Members :
          Record([op |-> "add", member |-> member], add(profiles, dirMode, member))

\* user_list::remove(user)
Remove ==
    /\ pc = "user_list"
    /\ \E user \in UserIds :
          Record([op |-> "remove", user |-> user], remove(profiles, dirMode, user))

\* user_list::set(members)
Set ==
    /\ pc = "user_list"
    /\ \E members \in MemberLists, entries \in ReadDirOrders(profiles) :
          Record([op |-> "set", members |-> members],
                 set(profiles, dirMode, entries, members))

\* user_list::update(member)
Update ==
    /\ pc = "user_list"
    /\ \E member \in Members :
          Record([op |-> "update", member |-> member], update(profiles, dirMode, member))

NextUserList == Add \/ Remove \/ Set \/ Update

SpecUserList == InitUserList /\ [][NextUserList]_vars

-----------------------------------------------------------------------------
(* What the claims speak of. *)

\* the text the scanner has not consumed yet
Remaining == IF pc = "loop" \/ pc = "panic" THEN text ELSE selfText

\* the ways t begins with <: + n word characters + : + d digits + >, n >= 2,
\* d >= 1 (there is at most one)
SpansAt(t) ==
    IF Len(t) < 7 \/ t[1] # Ch.lt \/ t[2] # Ch.colon THEN {}
    ELSE {nd \in (2..(Len(t) - 5)) \X (1..(Len(t) - 6)) :
            /\ 4 + nd[1] + nd[2] <= Len(t)
            /\ t[3 + nd[1]] = Ch.colon
            /\ t[4 + nd[1] + nd[2]] = Ch.gt
            /\ \A k \in 3..(2 + nd[1]) : IsWord(t[k])
            /\ \A k \in (4 + nd[1])..(3 + nd[1] + nd[2]) : IsDigit(t[k])}

\* t begins with a custom emoji
HasSpan(t) == SpansAt(t) # {}

\* the name, the digits and the length of the custom emoji t begins with
SpanOf(t) ==
    LET nd == CHOOSE x \in SpansAt(t) : TRUE
    IN  [name |-> SubSeq(t, 3, 2 + nd[1]),
         digits |-> [i \in 1..nd[2] |-> t[3 + nd[1] + i] - 48],
         len |-> 4 + nd[1] + nd[2]]

\* the digits a and b denote the same number
SameNumber(a, b) ==
    LET n == IF Len(a) > Len(b) THEN Len(a) ELSE Len(b)
        Pad(x) == [i \in 1..n |-> IF i <= n - Len(x) THEN 0 ELSE x[i - (n - Len(x))]]
    IN  Pad(a) = Pad(b)

\* the number of the digits fits in 64 bits
Fits(digits) == DecLeq(StripZeros(digits), U64Max)

\* the catalog entries the text t begins with
Candidates(t) == {emoji[i] : i \in {j \in DOMAIN emoji : StartsWith(t, emoji[j])}}

\* e occurs in t
Occurs(e, t) == \E i \in 0..(Len(t) - Len(e)) : SubSeq(t, i + 1, i + Len(e)) = e

\* no custom emoji starts anywhere in t and no catalog entry occurs in it
Plain(t) ==
    /\ \A i \in 1..Len(t) : ~HasSpan(SubSeq(t, i, Len(t)))
    /\ \A i \in DOMAIN emoji : ~Occurs(emoji[i], t)

\* C1: a custom-emoji-shaped span whose digits do not fit in 64 bits never
\* aborts the scan: the iteration that meets it at the cursor does not panic
\* and emits no Custom token for it.
C1_OverflowNeverAborts ==
    (did # "nothing" /\ HasSpan(at) /\ ~Fits(SpanOf(at).digits))
        => (did # "panic" /\ ~(did = "emit" /\ ret.tag = "Custom"))

\* C2: every loop iteration that emits a token or skips a codepoint leaves a
\* strictly shorter remaining text.
C2_EveryIterationShrinks ==
    (did \in {"emit", "skip"}) => Len(Remaining) < Len(at)

\* C3: where the custom emoji attempt does not match, the iteration emits a
\* catalog entry exactly when some entry is a prefix of the remaining text, and
\* the entry emitted has the most codepoints among those prefixes.
C3_LongestMatch ==
    (did \in {"emit", "skip", "none"} /\ ~HasSpan(at))
        => IF Candidates(at) = {} THEN did # "emit"
           ELSE /\ did = "emit"
                /\ ret.tag = "Unicode"
                /\ ret.s \in Candidates(at)
                /\ \A e \in Candidates(at) : Len(e) <= Len(ret.s)

\* C3 witness: a short entry and a longer one that extends it both begin the
\* text at the cursor, and the longer one was emitted.
C3_Witness ==
    /\ did = "emit"
    /\ ret.tag = "Unicode"
    /\ \E e \in Candidates(at) : Len(e) >= 1 /\ Len(e) < Len(ret.s)

\* C4: the spans consumed so far, followed by the remaining text, are the
\* original text; once next has returned None the spans alone are.
C4_Coverage ==
    /\ pc \in {"ready", "loop"} => consumed \o Remaining = orig
    /\ (pc = "ready" /\ ret.tag = "None") => consumed = orig

\* C4 witness: a scan of several iterations has run to exhaustion, one
\* codepoint being left at the end.
C4_Witness ==
    /\ pc = "ready"
    /\ ret.tag = "None"
    /\ Len(orig) >= 3
    /\ Len(at) = 1
    /\ consumed = orig

\* C5: where the remaining text begins with a custom emoji whose digits fit in
\* 64 bits, the iteration emits Custom with that name and the value of those
\* digits and leaves the text after the closing >; where neither a custom emoji
\* nor a catalog entry begins the remaining text, it emits no token.
C5_CustomExtraction ==
    /\ (did # "nothing" /\ HasSpan(at) /\ Fits(SpanOf(at).digits))
          => /\ did = "emit"
             /\ ret.tag = "Custom"
             /\ ret.name = SpanOf(at).name
             /\ SameNumber(ret.id, SpanOf(at).digits)
             /\ (Len(ret.id) = 1 \/ ret.id[1] # 0)
             /\ Remaining = SubSeq(at, SpanOf(at).len + 1, Len(at))
    /\ (did # "nothing" /\ ~HasSpan(at) /\ Candidates(at) = {})
          => did \in {"skip", "none"}

\* C5 witness: a custom emoji with plain text before and after it was emitted.
C5_Witness ==
    /\ pc = "ready"
    /\ did = "emit"
    /\ ret.tag = "Custom"
    /\ at # orig
    /\ selfText # <<>>

\* C6: whenever the scanner's remaining text is empty, next returns None.
C6_EmptyReturnsNone ==
    (did # "nothing" /\ at = <<>>) => (did = "none" /\ ret.tag = "None")

\* C7: parse_custom_emoji returns Some(Custom) when the whole input has the
\* form <:name:digits>, and None on every other input.
C7_WholeStringOnly ==
    (pret # NotCalled)
        => IF HasSpan(parg) /\ SpanOf(parg).len = Len(parg)
           THEN pret.tag = "Custom" /\ pret.name = SpanOf(parg).name
           ELSE pret.tag = "None"

\* C8: on a text in which no custom emoji starts anywhere and no catalog entry
\* occurs, no call of next emits a token: a call that returns returns None.
C8_NoMatchPurity ==
    (pc \in {"ready", "loop", "panic"} /\ Plain(orig))
        => (ret.tag \in {"Iter", "None"} /\ did \in {"nothing", "skip", "none"})

\* C8 witness: the first call of next has returned None on a plain text of
\* two or more codepoints, the catalog not being empty.
C8_Witness ==
    /\ pc = "ready"
    /\ ret.tag = "None"
    /\ Len(orig) >= 2
    /\ emoji # <<>>
    /\ Plain(orig)

\* the directory cannot be read, or some entry of it cannot
BadDirectory == ~readable \/ \E i \in DOMAIN listing : listing[i].stat # "ok"

\* C9: when the directory or any entry of it cannot be read or decoded,
\* Iter::new returns Err(Io) or Err(FilenameDecode), for a failure of that kind
\* that is there, and no scanner and no catalog; otherwise it returns no error.
C9_AllOrNothing ==
    (pc # "new")
        => IF BadDirectory
           THEN /\ pc = "err"
                /\ ret.tag = "Err"
                /\ ret.kind \in {"Io", "FilenameDecode"}
                /\ ret.kind = "Io"
                      => (~readable \/ \E i \in DOMAIN listing : listing[i].stat = "io")
                /\ ret.kind = "FilenameDecode"
                      => \E i \in DOMAIN listing : listing[i].stat = "not_unicode"
                /\ emoji = <<>>
                /\ selfText = <<>>
           ELSE pc # "err" /\ ret.tag # "Err"

\* C9 witness: Iter::new has failed on a name that is no valid Unicode, met
\* after an entry that encodes an emoji and before another entry.
C9_Witness ==
    /\ pc = "err"
    /\ ret.kind = "FilenameDecode"
    /\ Len(listing) = 3
    /\ listing[1].stat = "ok"
    /\ FileNameRE(listing[1].name).matched
    /\ listing[2].stat = "not_unicode"

\* the names of the directory, whatever the order they are enumerated in
FileNames == {listing[i].name : i \in DOMAIN listing}

\* C10: the catalog Iter::new builds holds the emoji of the filenames that
\* match the pattern, each exactly once, whatever the order of enumeration and
\* however many filenames decode to the same emoji.
C10_CatalogDeterminism ==
    (pc \in {"ready", "loop", "panic"})
        => /\ \A i, j \in DOMAIN emoji : i # j => emoji[i] # emoji[j]
           /\ {emoji[i] : i \in DOMAIN emoji}
                 = {DecodeCapture(FileNameRE(n).capture) :
                       n \in {m \in FileNames : FileNameRE(m).matched}}

\* C10 witness: a catalog was built from a directory in which two filenames
\* decode to the same emoji, enumerated after a third file.
C10_Witness ==
    /\ pc = "ready"
    /\ Len(listing) = 3
    /\ FileNameRE(listing[2].name).matched
    /\ FileNameRE(listing[3].name).matched
    /\ DecodeCapture(FileNameRE(listing[2].name).capture)
          = DecodeCapture(FileNameRE(listing[3].name).capture)
    /\ Len(emoji) = 2

\* the text after the first k codepoints of t
After(t, k) == SubSeq(t, k + 1, Len(t))

\* a custom emoji or a catalog entry begins the text t
MatchesAt(t) == HasSpan(t) \/ Candidates(t) # {}

\* the number of codepoints of the span the token just emitted matched
TokenLen == IF ret.tag = "Unicode" THEN Len(ret.s) ELSE SpanOf(at).len

\* C11: every call of next starts where the previous token ended, inside the
\* original text; the token it emits matches at a position at or after that
\* start, no position before it from that start on matches, and the text left
\* is the text after the token's span; a call that returns None has passed no
\* position that matches.
C11_LeftToRight ==
    /\ (pc \in {"ready", "loop"} /\ did # "nothing")
          => After(orig, Len(orig) - Len(callText)) = callText
    /\ (pc = "ready" /\ did = "emit")
          => /\ Len(at) <= Len(callText)
             /\ After(callText, Len(callText) - Len(at)) = at
             /\ \A j \in 0..(Len(callText) - Len(at) - 1) : ~MatchesAt(After(callText, j))
             /\ MatchesAt(at)
             /\ ret.tag = "Unicode" => StartsWith(at, ret.s)
             /\ selfText = After(at, TokenLen)
    /\ (pc = "ready" /\ did = "none")
          => \A j \in 0..(Len(callText) - 1) : ~MatchesAt(After(callText, j))

\* C11 witness: a second token was emitted, after a first token and a
\* codepoint skipped behind it.
C11_Witness ==
    /\ pc = "ready"
    /\ did = "emit"
    /\ Len(callText) < Len(orig)
    /\ Len(at) < Len(callText)

\* C13: where the remaining text begins with a custom emoji whose id fits in
\* 64 bits, the iteration emits the Custom token, whatever catalog entries
\* begin the text as well, and the cursor moves behind the whole span; every
\* Unicode token emitted later starts at or behind the end of that span.
C13_CustomFirst ==
    /\ (did # "nothing" /\ HasSpan(at) /\ Fits(SpanOf(at).digits))
          => /\ did = "emit"
             /\ ret.tag = "Custom"
             /\ afterCustom = Len(at) - SpanOf(at).len
             /\ Len(Remaining) = afterCustom
    /\ (did = "emit" /\ ret.tag = "Unicode" /\ afterCustom >= 0)
          => Len(at) <= afterCustom

\* C13 witness: a Custom token was emitted where a catalog entry of one
\* codepoint or more begins the text as well.
C13_Witness ==
    /\ pc = "ready"
    /\ did = "emit"
    /\ ret.tag = "Custom"
    /\ \E e \in Candidates(at) : Len(e) >= 1

\* C13 witness of the second half: a Unicode token was emitted behind a
\* Custom token inside whose span a catalog entry occurs.
C13_LaterUnicode ==
    /\ pc = "ready"
    /\ did = "emit"
    /\ ret.tag = "Unicode"
    /\ afterCustom >= 0
    /\ Len(ret.s) >= 1

\* the name is <hex>(-<hex>)*.svg with one to six lowercase hexadecimal digits
\* in every group, stated character by character
IsEmojiFileName(name) ==
    LET n == Len(name) - 4
    IN  /\ n >= 1
        /\ name[n + 1] = Ch.dot /\ name[n + 2] = 115 /\ name[n + 3] = 118 /\ name[n + 4] = 103
        /\ name[1] # Ch.dash /\ name[n] # Ch.dash
        /\ \A i \in 1..n : IsLowerHex(name[i]) \/ name[i] = Ch.dash
        /\ \A i \in 1..(n - 1) : ~(name[i] = Ch.dash /\ name[i + 1] = Ch.dash)
        /\ \A i \in 1..(n - 6) : \E k \in i..(i + 6) : name[k] = Ch.dash

\* the positions of a name of that form at which a group of digits begins
GroupStarts(name) ==
    {i \in 1..(Len(name) - 4) : name[i] # Ch.dash /\ (i = 1 \/ name[i - 1] = Ch.dash)}

\* the position at which the group that begins at i ends
GroupEnd(name, i) ==
    CHOOSE j \in i..(Len(name) - 4) :
        /\ \A k \in i..j : name[k] # Ch.dash
        /\ (j = Len(name) - 4 \/ name[j + 1] = Ch.dash)

RECURSIVE GroupValue(_, _, _)
\* the number the lowercase hexadecimal digits name[i..j] denote
GroupValue(name, i, j) ==
    IF j < i THEN 0
    ELSE 16 * GroupValue(name, i, j - 1)
         + (IF name[j] <= 57 THEN name[j] - 48 ELSE name[j] - 87)

\* v is a Unicode scalar value: at most 10FFFF and no surrogate (D800..DFFF)
IsScalarValue(v) == v <= 1114111 /\ ~(v >= 55296 /\ v <= 57343)

\* the emoji a name of that form stands for: the values of its groups in the
\* order of the name, those that are no scalar value left out
EmojiOfFileName(name) ==
    LET starts == GroupStarts(name)
        nth(k) == CHOOSE i \in starts : Cardinality({x \in starts : x < i}) = k - 1
        values == [k \in 1..Cardinality(starts) |-> GroupValue(name, nth(k), GroupEnd(name, nth(k)))]
    IN  SelectSeq(values, IsScalarValue)

\* C14: the catalog is exactly the set of the emoji of the filenames of the
\* directory that have the form <hex>(-<hex>)*.svg, an emoji being the scalar
\* values of the groups in filename order, the groups that denote a surrogate
\* or a value above 10FFFF left out; other filenames add nothing.
C14_FilenameDecoding ==
    (pc \in {"ready", "loop", "panic"})
        => {emoji[i] : i \in DOMAIN emoji}
              = {EmojiOfFileName(n) : n \in {m \in FileNames : IsEmojiFileName(m)}}

\* C14 witness: a catalog of the rainbow alone was built from a directory
\* holding 110000-1f308.svg, one group of which is dropped, and a filename
\* that does not have the form.
C14_Witness ==
    /\ pc = "ready"
    /\ \E i \in DOMAIN listing : listing[i] = SvgOf(<<Nib.beyond, Nib.rainbow>>)
    /\ \E i \in DOMAIN listing : ~IsEmojiFileName(listing[i].name)
    /\ emoji = <<<<Cp.rainbow>>>>

\* the scanner's byte offset into the original text
ByteOffset == ByteLen(orig) - ByteLen(Remaining)

\* C15: in every state of a scan the byte offset into the original text lies
\* on a codepoint boundary, the text from there on being what remains; a skip
\* advances by the encoded width of exactly one codepoint, 1 to 4 bytes; a
\* match advances by the encoded width of the matched span; no step stops
\* inside a codepoint.
C15_CodepointCursor ==
    /\ (pc \in {"ready", "loop", "panic"})
          => /\ CharsBefore(orig, ByteOffset, 0, 0) >= 0
             /\ SliceFrom(orig, ByteOffset) = [ok |-> TRUE, s |-> Remaining]
    /\ (did = "skip")
          => /\ ByteLen(at) - ByteLen(Remaining) = Utf8Len(at[1])
             /\ Utf8Len(at[1]) \in 1..4
             /\ Remaining = Tail(at)
    /\ (did = "emit" /\ ret.tag = "Custom")
          => ByteLen(at) - ByteLen(Remaining) = ByteLen(SubSeq(at, 1, SpanOf(at).len))
    /\ (did = "emit" /\ ret.tag = "Unicode")
          => /\ ByteLen(at) - ByteLen(Remaining) = ByteLen(ret.s)
             /\ at = ret.s \o Remaining
    /\ (did = "panic") => (HasSpan(at) /\ ~Fits(SpanOf(at).digits))

\* C15 witness: a codepoint of several bytes was skipped in the middle of a
\* text.
C15_Witness ==
    /\ pc = "loop" /\ did = "skip"
    /\ Utf8Len(at[1]) >= 2
    /\ Len(at) < Len(orig)
    /\ Remaining # <<>>

\* C15 witness: a match of a span of several codepoints of several bytes
\* advanced the offset.
C15_MatchWitness ==
    /\ pc = "ready" /\ did = "emit" /\ ret.tag = "Unicode"
    /\ Len(ret.s) >= 2 /\ ByteLen(ret.s) > Len(ret.s)
    /\ Remaining # <<>>

\* C16: the catalog never contains the empty string, and every Unicode token
\* the scanner emits has at least one codepoint, whatever the directory holds.
C16_NoEmptyEntry ==
    /\ (pc \in {"ready", "loop", "panic"}) => \A i \in DOMAIN emoji : Len(emoji[i]) >= 1
    /\ (did = "emit" /\ ret.tag = "Unicode") => Len(ret.s) >= 1

\* C16: the empty string in the catalog, built from a directory holding
\* d800.svg, was emitted as a Unicode token.
C16_EmptyEmitted ==
    /\ pc = "ready" /\ did = "emit" /\ ret = [tag |-> "Unicode", s |-> <<>>]
    /\ \E i \in DOMAIN listing : listing[i] = SvgOf(<<Nib.surrogate>>)
    /\ \E i \in DOMAIN emoji : emoji[i] = <<>>

\* the user ids occurring in the members the last call was handed
IdsOfCall == {call.members[i].user.id : i \in DOMAIN call.members}

\* C12: whenever set(members) returns Ok, the profiles directory holds exactly
\* one file <user id>.json for each user id occurring in members and no other
\* entry, whatever it held before the call.
C12_SetReinitializes ==
    (call.op = "set" /\ result = "Ok")
        => /\ DOMAIN profiles = {ProfilePath(u) : u \in IdsOfCall}
           /\ Cardinality(DOMAIN profiles) = Cardinality(IdsOfCall)
           /\ \A n \in DOMAIN profiles : profiles[n].kind = "file"

\* C12 witness: set returned Ok on a directory that held a stray file and the
\* profile of a user who is not among the members.
C12_Witness ==
    /\ call.op = "set" /\ result = "Ok"
    /\ IdsOfCall = {17}
    /\ {ProfilePath(7), StrayName} \subseteq DOMAIN dirBefore

\* C12 witness: set returned Ok on members in which one user id occurs twice.
C12_TwiceWitness ==
    /\ call.op = "set" /\ result = "Ok"
    /\ Len(call.members) = 2 /\ IdsOfCall = {7}
    /\ dirBefore # EmptyDir

\* C17: when add(member) fails with MissingJoinDate the profiles directory is
\* as it was before the call: no file for that user is created and an existing
\* file of that user keeps its content.
C17_AddPreservesOnError ==
    (call.op = "add" /\ result = "MissingJoinDate") => profiles = dirBefore

\* C17: add failed with MissingJoinDate and left the profile of the user, which
\* held a document before, empty.
C17_Truncated ==
    /\ call.op = "add" /\ result = "MissingJoinDate"
    /\ ProfilePath(call.member.user.id) \in DOMAIN dirBefore
    /\ dirBefore[ProfilePath(call.member.user.id)].content # <<>>
    /\ profiles[ProfilePath(call.member.user.id)] = RegularFile(<<>>)

\* C18: remove(user) on a user with no profile file returns Ok and leaves the
\* directory unchanged; after remove(user) returns Ok no file for that user
\* exists and every other entry is as it was; a second remove(user) right
\* after it returns Ok too and leaves the directory as it is.
C18_RemoveIdempotent ==
    /\ (call.op = "remove" /\ ProfilePath(call.user) \notin DOMAIN dirBefore)
          => (result = "Ok" /\ profiles = dirBefore)
    /\ (call.op = "remove" /\ result = "Ok")
          => /\ ProfilePath(call.user) \notin DOMAIN profiles
             /\ DOMAIN profiles = DOMAIN dirBefore \ {ProfilePath(call.user)}
             /\ \A n \in DOMAIN profiles : profiles[n] = dirBefore[n]
    /\ (call.op = "remove" /\ removedBefore.some /\ removedBefore.user = call.user)
          => (result = "Ok" /\ profiles = dirBefore)

\* C18 witness: remove(user) deleted the profile of the user, a second
\* remove(user) followed it, and the directory holds another profile.
C18_Witness ==
    /\ call.op = "remove" /\ result = "Ok"
    /\ removedBefore.some /\ removedBefore.user = call.user /\ removedBefore.deleted
    /\ \E u \in UserIds \ {call.user} : ProfilePath(u) \in DOMAIN profiles

====
